---- MODULE Spec2Model ----
(***************************************************************************)
(* A model of the crnlib decoder core: the MSB-first bit reader (Codec),   *)
(* the canonical Huffman table (Huffman::new / Huffman::next), the         *)
(* palette cursor (Table::next) and the per-level chunk unpackers          *)
(* (Dxt1 / Dxt5 / Dxt5A / Dxn ::unpack, Header::unpack_level).             *)
(***************************************************************************)
EXTENDS Integers, Sequences, FiniteSets, TLC

VARIABLES
    buffer,     \* Codec.buffer: the input bytes viewed as a sequence of bits, Msb0
    index,      \* Codec.index: the bit cursor
    ret,        \* the last call on the codec and what it returned
    huffman,    \* the Huffman table in use (Huffman<T>)
    entries,    \* Table.entries: the palette
    idx,        \* the palette cursor handed to Table::next
    call,       \* the level unpack in progress: the function called and its arguments
    tables,     \* the Tables handed to the unpacker
    pc,         \* where the unpacker stands: "idle", "tile", "endpoint", "selector", "finish", "done"
    loc,        \* the unpacker's local variables
    result,     \* the output vector: its length and the blocks written, by byte offset
    cursor      \* the position of the std::io::Cursor over result

codecVars == <<buffer, index>>
tableVars == <<huffman, entries, idx>>
unpackVars == <<call, tables, pc, loc, result, cursor>>
vars == <<buffer, index, ret, huffman, entries, idx, call, tables, pc, loc, result, cursor>>

(***************************************************************************)
(* Bounds of the model.                                                    *)
(***************************************************************************)
MaxBytes == 1       \* longest generic input, in bytes
MaxOverrun == 2     \* how far skip_bits may push index past the end
MaxSkip == 3        \* largest n handed to skip_bits

(***************************************************************************)
(* Program constants.                                                      *)
(***************************************************************************)
U64Bits == 64       \* width of the u64 that look_bits / read_bits return
KeyMaxDepth == 16   \* Key::MAX_DEPTH

(***************************************************************************)
(* Bits and 64-bit values.  A u64 is a sequence of 64 bits, most           *)
(* significant first, so that no value outgrows the checker's integers.    *)
(***************************************************************************)
RECURSIVE Pow2(_)
Pow2(n) == IF n = 0 THEN 1 ELSE 2 * Pow2(n - 1)

Zeros(n) == [k \in 1..n |-> 0]

\* a variant of BitOfByte that numbers the bits from the least significant (Lsb0)
BitOfByteLsb0(b, j) == (b \div Pow2(j)) % 2

\* bit j (0 = most significant) of byte b: the Msb0 order of BitSlice<Msb0, u8>
BitOfByte(b, j) == (b \div Pow2(7 - j)) % 2

\* BitSlice::from_slice(input)
BitSliceFromSlice(input) ==
    [k \in 1..(8 * Len(input)) |-> BitOfByte(input[((k - 1) \div 8) + 1], (k - 1) % 8)]

\* the bits [from, to) of a bit slice (a Rust range index)
Range(bits, from, to) == SubSeq(bits, from + 1, to)

\* BitField::load_be::<u64> of a region of 1..64 bits: the region read as a
\* big-endian integer, right-justified in the u64
LoadBe(bits) == Zeros(U64Bits - Len(bits)) \o bits

\* v << k on a u64 (0 <= k < 64)
Shl(v, k) == SubSeq(v, k + 1, U64Bits) \o Zeros(k)

\* the number a sequence of bits denotes
RECURSIVE NatOf(_)
NatOf(bits) ==
    IF Len(bits) = 0 THEN 0
    ELSE 2 * NatOf(SubSeq(bits, 1, Len(bits) - 1)) + bits[Len(bits)]

\* the u64 holding the number n
RECURSIVE BitsOf(_, _)
BitsOf(n, w) == IF w = 0 THEN <<>> ELSE Append(BitsOf(n \div 2, w - 1), n % 2)

U64(n) == BitsOf(n, U64Bits)

\* `v as u32`: the low 32 bits
AsU32(v) == NatOf(SubSeq(v, U64Bits - 31, U64Bits))

(***************************************************************************)
(* Codec (src/codec.rs).  Each operation is a function of the codec state  *)
(* giving the outcome: status "ok" | "err" (an Err returned) | "panic"     *)
(* (the thread aborts), the value and the new index.                       *)
(***************************************************************************)
Outcome(st, v, i) == [status |-> st, val |-> v, index |-> i]

\* Codec::look_bits(n)
look_bits(buf, i, n) ==
    IF n > U64Bits THEN Outcome("panic", Zeros(U64Bits), i)          \* assert!(n <= 64)
    ELSE IF n = 0 THEN Outcome("ok", Zeros(U64Bits), i)
    ELSE IF i + n > Len(buf)
    THEN IF i > Len(buf)
         THEN Outcome("panic", Zeros(U64Bits), i)     \* buffer[index..]: start past the end
         ELSE IF i = Len(buf)
         THEN Outcome("panic", Zeros(U64Bits), i)     \* load_be of an empty region
         ELSE Outcome("ok", Shl(LoadBe(Range(buf, i, Len(buf))), i + n - Len(buf)), i)
    ELSE Outcome("ok", LoadBe(Range(buf, i, i + n)), i)

\* a variant of read_bits whose bound check is off by one (>= for >)
read_bits_inclusive(buf, i, n) ==
    IF n > U64Bits THEN Outcome("panic", Zeros(U64Bits), i)
    ELSE IF i + n >= Len(buf) THEN Outcome("err", Zeros(U64Bits), i)
    ELSE IF n = 0 THEN Outcome("ok", Zeros(U64Bits), i)
    ELSE Outcome("ok", LoadBe(Range(buf, i, i + n)), i + n)

\* Codec::read_bits(n)
read_bits(buf, i, n) ==
    IF n > U64Bits THEN Outcome("panic", Zeros(U64Bits), i)          \* assert!(n <= 64)
    ELSE IF i + n > Len(buf) THEN Outcome("err", Zeros(U64Bits), i)  \* bail!("read out of index")
    ELSE IF n = 0 THEN Outcome("ok", Zeros(U64Bits), i)
    ELSE Outcome("ok", LoadBe(Range(buf, i, i + n)), i + n)

\* Codec::skip_bits(n)
skip_bits(buf, i, n) == Outcome("ok", Zeros(U64Bits), i + n)

\* Codec::is_complete()
is_complete(buf, i) == i + 7 >= Len(buf) /\ i <= Len(buf)

(***************************************************************************)
(* Huffman (src/codec.rs).  symbol_depth is a function from symbols to     *)
(* depths, the BTreeMap handed to Huffman::new.                            *)
(***************************************************************************)
NoSym == 0 - 1      \* stands for "no symbol returned"

SetMin(S) == CHOOSE x \in S : \A z \in S : x <= z
SetMax(S) == CHOOSE x \in S : \A z \in S : x >= z

\* depth_count[depth] += 1 for every value of the map
DepthCount(symbol_depth) ==
    [d \in 0..KeyMaxDepth |-> Cardinality({s \in DOMAIN symbol_depth : symbol_depth[s] = d})]

\* available <<= 1; if depth != 0 { available += n }; depth_bound[depth] = available
RECURSIVE DepthBound(_, _)
DepthBound(depth_count, d) ==
    IF d = 0 THEN 0 ELSE 2 * DepthBound(depth_count, d - 1) + depth_count[d]

\* the last depth whose count is not 0, or 0
MaxDepthOf(depth_count) ==
    LET used == {d \in 0..KeyMaxDepth : depth_count[d] # 0}
    IN  IF used = {} THEN 0 ELSE SetMax(used)

\* a variant of the ensure! that also lets under-subscribed tables through
KraftOkAtMost(max_depth, bound) ==
    \/ bound <= Pow2(max_depth)
    \/ (max_depth <= 1 /\ bound = max_depth)

\* the ensure! of Huffman::new
KraftOk(max_depth, bound) ==
    \/ Pow2(max_depth) = bound
    \/ (max_depth <= 1 /\ bound = max_depth)

\* a variant of CodeOf whose depth_current starts at depth_bound[depth-1], not doubled
CodeOfUndoubled(symbol_depth, depth_count, s) ==
    DepthBound(depth_count, symbol_depth[s] - 1)
    + Cardinality({t \in DOMAIN symbol_depth : t < s /\ symbol_depth[t] = symbol_depth[s]})

\* a variant of CodeOf that increments depth_current before using it
CodeOfPreIncrement(symbol_depth, depth_count, s) ==
    2 * DepthBound(depth_count, symbol_depth[s] - 1)
    + Cardinality({t \in DOMAIN symbol_depth : t <= s /\ symbol_depth[t] = symbol_depth[s]})

\* the code of symbol s: depth_current[depth] starts at depth_bound[depth-1]*2 and
\* is handed out in ascending symbol order (BTreeMap iteration)
CodeOf(symbol_depth, depth_count, s) ==
    2 * DepthBound(depth_count, symbol_depth[s] - 1)
    + Cardinality({t \in DOMAIN symbol_depth : t < s /\ symbol_depth[t] = symbol_depth[s]})

\* Huffman::new
HuffmanNew(symbol_depth) ==
    IF \E s \in DOMAIN symbol_depth : symbol_depth[s] > KeyMaxDepth
    THEN [status |-> "panic", symbol_depth |-> symbol_depth, max_depth |-> 0,
          symbols |-> <<>>, symbol_rev |-> <<>>]     \* depth_count[depth]: out of range
    ELSE
    LET depth_count == DepthCount(symbol_depth)
        max_depth == MaxDepthOf(depth_count)
        coded == {s \in DOMAIN symbol_depth : symbol_depth[s] # 0}
        symbols == [s \in coded |-> CodeOf(symbol_depth, depth_count, s)]
        keys == {<<symbol_depth[s], symbols[s]>> : s \in coded}
        symbol_rev == [dc \in keys |->
                         SetMax({s \in coded : <<symbol_depth[s], symbols[s]>> = dc})]
    IN  IF KraftOk(max_depth, DepthBound(depth_count, max_depth))
        THEN [status |-> "ok", symbol_depth |-> symbol_depth, max_depth |-> max_depth,
              symbols |-> symbols, symbol_rev |-> symbol_rev]
        ELSE [status |-> "err", symbol_depth |-> symbol_depth, max_depth |-> max_depth,
              symbols |-> <<>>, symbol_rev |-> <<>>]

SymOutcome(st, s, i) == [status |-> st, sym |-> s, index |-> i]

\* a variant of Huffman::next that consumes the whole lookahead (max_depth bits)
HuffmanNextWholeLook(h, buf, i) ==
    IF ~(i < Len(buf)) THEN SymOutcome("err", NoSym, i)
    ELSE
    LET look == look_bits(buf, i, h.max_depth)
        k == AsU32(look.val)
        hit == {d \in 1..h.max_depth :
                  <<d, k \div Pow2(h.max_depth - d)>> \in DOMAIN h.symbol_rev}
    IN  IF look.status = "panic" THEN SymOutcome("panic", NoSym, i)
        ELSE IF hit = {} THEN SymOutcome("err", NoSym, i)
        ELSE LET d == SetMin(hit)
             IN  SymOutcome("ok", h.symbol_rev[<<d, k \div Pow2(h.max_depth - d)>>],
                            i + h.max_depth)

\* Huffman::next(codec)
HuffmanNext(h, buf, i) ==
    IF ~(i < Len(buf)) THEN SymOutcome("err", NoSym, i)              \* ensure!: stream end
    ELSE
    LET look == look_bits(buf, i, h.max_depth)
        k == AsU32(look.val)
        hit == {d \in 1..h.max_depth :
                  <<d, k \div Pow2(h.max_depth - d)>> \in DOMAIN h.symbol_rev}
    IN  IF look.status = "panic" THEN SymOutcome("panic", NoSym, i)
        ELSE IF hit = {} THEN SymOutcome("err", NoSym, i)            \* bail!: no match
        ELSE LET d == SetMin(hit)
             IN  SymOutcome("ok", h.symbol_rev[<<d, k \div Pow2(h.max_depth - d)>>], i + d)

(***************************************************************************)
(* The calls on a Codec as actions.  ret records the call and its result;  *)
(* after a panic nothing more runs.                                        *)
(***************************************************************************)
Ret(op, n, o) ==
    [op |-> op, n |-> n, pre |-> index, status |-> o.status, val |-> o.val, sym |-> NoSym]

Running == ret.status # "panic"

NBits == 0..U64Bits

ReadBits(n) ==
    /\ Running
    /\ LET o == read_bits(buffer, index, n)
       IN  /\ index' = o.index
           /\ ret' = Ret("read_bits", n, o)
    /\ UNCHANGED <<buffer, huffman, entries, idx, unpackVars>>

LookBits(n) ==
    /\ Running
    /\ LET o == look_bits(buffer, index, n)
       IN  /\ index' = o.index
           /\ ret' = Ret("look_bits", n, o)
    /\ UNCHANGED <<buffer, huffman, entries, idx, unpackVars>>

SkipBits(n) ==
    /\ Running
    /\ index + n <= Len(buffer) + MaxOverrun
    /\ LET o == skip_bits(buffer, index, n)
       IN  /\ index' = o.index
           /\ ret' = Ret("skip_bits", n, o)
    /\ UNCHANGED <<buffer, huffman, entries, idx, unpackVars>>

(***************************************************************************)
(* SpecCodec: a Codec over one of the inputs, driven by read_bits,         *)
(* look_bits and skip_bits.                                                *)
(***************************************************************************)
TestInput == <<202, 109, 217>>      \* [0b1100_1010, 0b0110_1101, 0b1101_1001]
LongInput == <<202, 109, 217, 64, 255, 0, 1, 128, 165>>
ByteVals == {0, 64, 255}

RECURSIVE SeqsUpTo(_, _)
SeqsUpTo(S, n) ==
    IF n = 0 THEN {<<>>}
    ELSE LET shorter == SeqsUpTo(S, n - 1)
         IN  shorter \cup {Append(q, x) : q \in shorter, x \in S}

CodecInputs == SeqsUpTo(ByteVals, MaxBytes) \cup {TestInput, LongInput}

\* no level unpack in progress
Idle ==
    /\ call = [fn |-> "none"]
    /\ tables = <<>>
    /\ pc = "idle"
    /\ loc = <<>>
    /\ result = [len |-> 0, data |-> <<>>]
    /\ cursor = 0

NoRet == [op |-> "new", n |-> 0, pre |-> 0, status |-> "ok", val |-> Zeros(U64Bits), sym |-> NoSym]

InitCodec ==
    /\ \E input \in CodecInputs : buffer = BitSliceFromSlice(input)     \* Codec::new
    /\ index = 0
    /\ ret = NoRet
    /\ huffman = HuffmanNew(<<>>)
    /\ entries = <<>>
    /\ idx = 0
    /\ Idle

NextCodec ==
    \/ \E n \in NBits : ReadBits(n)
    \/ \E n \in NBits : LookBits(n)
    \/ \E n \in 1..MaxSkip : SkipBits(n)

SpecCodec == InitCodec /\ [][NextCodec]_vars

(***************************************************************************)
(* SpecHuffman: a Codec and one accepted Huffman table, driven by          *)
(* Huffman::next, read_bits and look_bits (no skip_bits).                  *)
(***************************************************************************)
MaxCodeLen == 2     \* deepest code of the tables tried
MaxRead == 2        \* largest n of the read_bits / look_bits mixed with next

Symbols == {1, 2, 255}

\* every BTreeMap over a subset of Symbols with depths 0..MaxCodeLen
DepthMaps == UNION {[S -> 0..MaxCodeLen] : S \in SUBSET Symbols}

\* the tables Huffman::new returns Ok for
HuffmanTables == {h \in {HuffmanNew(sd) : sd \in DepthMaps} : h.status = "ok"}

SymRet(op, o) ==
    [op |-> op, n |-> 0, pre |-> index, status |-> o.status, val |-> Zeros(U64Bits), sym |-> o.sym]

\* huffman.next(&mut codec)
Next_(h) ==
    /\ Running
    /\ LET o == HuffmanNext(h, buffer, index)
       IN  /\ index' = o.index
           /\ ret' = SymRet("next", o)
    /\ UNCHANGED <<buffer, huffman, entries, idx, unpackVars>>

InitHuffman ==
    /\ \E input \in SeqsUpTo(ByteVals, MaxBytes) : buffer = BitSliceFromSlice(input)
    /\ index = 0
    /\ ret = NoRet
    /\ huffman \in HuffmanTables
    /\ entries = <<>>
    /\ idx = 0
    /\ Idle

NextHuffman ==
    \/ Next_(huffman)
    \/ \E n \in 0..MaxRead : ReadBits(n)
    \/ \E n \in 0..MaxRead : LookBits(n)

SpecHuffman == InitHuffman /\ [][NextHuffman]_vars

(***************************************************************************)
(* SpecHuffmanNew: Huffman::new applied to a symbol_depth map, accepted or *)
(* not.                                                                    *)
(***************************************************************************)
MaxNewDepth == 3    \* deepest depth of the maps handed to Huffman::new

NewSymbols == {0, 1, 2, 255}

\* {A: 1, B..G: 3}: one symbol at depth 1 and six at depth 3
SevenSymbols == [s \in 10..16 |-> IF s = 10 THEN 1 ELSE 3]

\* every BTreeMap over a subset of NewSymbols with depths 0..MaxNewDepth, and
\* the seven-symbol map
NewInputs == UNION {[S -> 0..MaxNewDepth] : S \in SUBSET NewSymbols} \cup {SevenSymbols}

\* a symbol_depth map not yet handed to Huffman::new
Unbuilt(symbol_depth) ==
    [status |-> "unbuilt", symbol_depth |-> symbol_depth, max_depth |-> 0,
     symbols |-> <<>>, symbol_rev |-> <<>>]

\* Huffman::new(symbol_depth)
HuffmanNewCall ==
    /\ huffman.status = "unbuilt"
    /\ huffman' = HuffmanNew(huffman.symbol_depth)
    /\ ret' = [op |-> "new", n |-> 0, pre |-> 0, status |-> huffman'.status,
               val |-> Zeros(U64Bits), sym |-> NoSym]
    /\ UNCHANGED <<buffer, index, entries, idx, unpackVars>>

InitHuffmanNew ==
    /\ buffer = <<>>
    /\ index = 0
    /\ ret = NoRet
    /\ \E symbol_depth \in NewInputs : huffman = Unbuilt(symbol_depth)
    /\ entries = <<>>
    /\ idx = 0
    /\ Idle

NextHuffmanNew == HuffmanNewCall

SpecHuffmanNew == InitHuffmanNew /\ [][NextHuffmanNew]_vars

(***************************************************************************)
(* Claims about Huffman::new.                                              *)
(***************************************************************************)

\* the symbols of a map with a non-zero depth
Coded(symbol_depth) == {s \in DOMAIN symbol_depth : symbol_depth[s] # 0}

\* depth_bound[d] of the spec: depth_bound[0] = 0,
\* depth_bound[d] = 2*depth_bound[d-1] + depth_count[d]
RECURSIVE depth_bound(_, _)
depth_bound(symbol_depth, d) ==
    IF d = 0 THEN 0
    ELSE 2 * depth_bound(symbol_depth, d - 1)
         + Cardinality({s \in DOMAIN symbol_depth : symbol_depth[s] = d})

\* max {d : depth_count[d] > 0} over the coded symbols, or 0
DeepestCoded(symbol_depth) ==
    IF Coded(symbol_depth) = {} THEN 0
    ELSE SetMax({symbol_depth[s] : s \in Coded(symbol_depth)})

\* C12: for every map Huffman::new accepts, symbol_by_code(depth(s),
\* code_by_symbol(s)) = s for every coded symbol s, the depth-d codes are exactly
\* the integers of [2*depth_bound[d-1], depth_bound[d]), and no two symbols share
\* a (depth, code) pair.
C12_MapsInverse ==
    huffman.status = "ok" =>
        LET sd == huffman.symbol_depth
            coded == Coded(sd)
        IN  /\ DOMAIN huffman.symbols = coded
            /\ \A s \in coded :
                   /\ <<sd[s], huffman.symbols[s]>> \in DOMAIN huffman.symbol_rev
                   /\ huffman.symbol_rev[<<sd[s], huffman.symbols[s]>>] = s
            /\ \A d \in 1..KeyMaxDepth :
                   {huffman.symbols[s] : s \in {t \in coded : sd[t] = d}}
                       = (2 * depth_bound(sd, d - 1))..(depth_bound(sd, d) - 1)
            /\ \A s \in coded, t \in coded :
                   s # t => <<sd[s], huffman.symbols[s]>> # <<sd[t], huffman.symbols[t]>>

\* {0: 2, 1: 1, 2: 3, 255: 3} has been accepted: codes 10, 0, 110, 111
C12_Witness ==
    /\ huffman.status = "ok"
    /\ huffman.symbol_depth = (0 :> 2) @@ (1 :> 1) @@ (2 :> 3) @@ (255 :> 3)
    /\ huffman.symbols = (0 :> 2) @@ (1 :> 0) @@ (2 :> 6) @@ (255 :> 7)

\* C13: Huffman::new succeeds iff depth_bound[max_depth] = 2^max_depth, or no
\* symbol has a non-zero depth, or exactly one symbol is coded and it is at
\* depth 1; every other depth assignment is rejected with an error.
C13_AcceptIffKraft ==
    huffman.status # "unbuilt" =>
        LET sd == huffman.symbol_depth
            md == DeepestCoded(sd)
            accept == \/ depth_bound(sd, md) = Pow2(md)
                      \/ Coded(sd) = {}
                      \/ (Cardinality(Coded(sd)) = 1 /\ \A s \in Coded(sd) : sd[s] = 1)
        IN  IF accept THEN huffman.status = "ok" ELSE huffman.status = "err"

\* the seven-symbol map {A: 1, B..G: 3} has been rejected
C13_Witness ==
    /\ huffman.status = "err"
    /\ huffman.symbol_depth = SevenSymbols

(***************************************************************************)
(* Claims about the bit reader.                                            *)
(***************************************************************************)

\* the bits [from, from+n) of the stream, right-justified in a u64
StreamBits(from, n) ==
    [j \in 1..U64Bits |-> IF j <= U64Bits - n THEN 0 ELSE buffer[from + j - (U64Bits - n)]]

\* the bits [from, from+n) of the stream padded with zeros on the right
PaddedBits(from, n) ==
    [j \in 1..U64Bits |->
       IF j <= U64Bits - n THEN 0
       ELSE IF from + j - (U64Bits - n) <= Len(buffer) THEN buffer[from + j - (U64Bits - n)]
       ELSE 0]

\* C6: read_bits(n), n in 0..64: when index + n <= 8*len it returns the bits
\* index..index+n MSB-first and right-justified and advances index by n (n = 0
\* returns 0 and leaves index alone); otherwise it fails and leaves index alone.
C6_ReadBitsContract ==
    ret.op = "read_bits" =>
        IF ret.pre + ret.n <= Len(buffer)
        THEN /\ ret.status = "ok"
             /\ index = ret.pre + ret.n
             /\ ret.val = StreamBits(ret.pre, ret.n)
        ELSE /\ ret.status = "err"
             /\ index = ret.pre

\* an unaligned read of the full 64 bits has succeeded
C6_Witness ==
    /\ ret.op = "read_bits" /\ ret.status = "ok"
    /\ ret.n = U64Bits /\ ret.pre = 3 /\ index = 67

\* C7 as stated: on [0xCA, 0x6D, 0xD9], read(3) = 0b110 (index 3), then
\* read(17) = 0b10100110110111011 (index 20), then read(0) = 0 (index 20).
C7_AsStated ==
    (buffer = BitSliceFromSlice(TestInput) /\ ret.op = "read_bits") =>
        /\ (ret.pre = 0 /\ ret.n = 3) => (ret.status = "ok" /\ ret.val = U64(6) /\ index = 3)
        /\ (ret.pre = 3 /\ ret.n = 17) =>
               (ret.status = "ok" /\ ret.val = U64(85435) /\ index = 20)
        /\ (ret.pre = 20 /\ ret.n = 0) => (ret.status = "ok" /\ ret.val = U64(0) /\ index = 20)

\* C7 amended: the 17 bits at 3..20 are 0_1010_0110_1101_1101, so read(17)
\* returns 0b1010011011011101 (42717); the other two reads are as stated.
C7_ReadBitsScenario ==
    (buffer = BitSliceFromSlice(TestInput) /\ ret.op = "read_bits") =>
        /\ (ret.pre = 0 /\ ret.n = 3) => (ret.status = "ok" /\ ret.val = U64(6) /\ index = 3)
        /\ (ret.pre = 3 /\ ret.n = 17) =>
               (ret.status = "ok" /\ ret.val = U64(42717) /\ index = 20)
        /\ (ret.pre = 20 /\ ret.n = 0) => (ret.status = "ok" /\ ret.val = U64(0) /\ index = 20)

\* read(17) from index 3 of the test input has returned
C7_Witness ==
    /\ buffer = BitSliceFromSlice(TestInput)
    /\ ret.op = "read_bits" /\ ret.pre = 3 /\ ret.n = 17 /\ index = 20

\* C8: look_bits(n) never fails and never moves index, at every cursor position
\* (zero bits remaining included), and returns the stream zero-padded on the right.
C8_LookBitsNeverFails ==
    ret.op = "look_bits" =>
        /\ ret.status = "ok"
        /\ index = ret.pre
        /\ ret.pre <= Len(buffer) => ret.val = PaddedBits(ret.pre, ret.n)

\* C9: index <= 8*len in every state reached by read_bits, look_bits and
\* Huffman::next; a decode that matches a code through the zero padding fails.
C9_IndexWithinBuffer == index <= Len(buffer)

(***************************************************************************)
(* Claims about the singleton table.                                       *)
(***************************************************************************)
IsSingleton(h) == h.max_depth = 1 /\ Cardinality(DOMAIN h.symbols) = 1

TheSymbol(h) == CHOOSE s \in DOMAIN h.symbols : TRUE

\* C10 as stated: with a singleton table, every next() with a bit remaining
\* yields the symbol and consumes 1 bit, whatever that bit is.
C10_AsStated ==
    (IsSingleton(huffman) /\ ret.op = "next" /\ ret.pre < Len(buffer)) =>
        /\ ret.status = "ok"
        /\ ret.sym = TheSymbol(huffman)
        /\ index = ret.pre + 1

\* C10 amended: the single symbol has code 0 at depth 1, so next() yields it and
\* consumes 1 bit when the next bit is 0, and fails leaving index alone when
\* the next bit is 1 (on [0x40] the first next() returns 0xFF, the second fails).
C10_SingletonDecode ==
    (IsSingleton(huffman) /\ ret.op = "next" /\ ret.pre < Len(buffer)) =>
        IF buffer[ret.pre + 1] = 0
        THEN /\ ret.status = "ok"
             /\ ret.sym = TheSymbol(huffman)
             /\ index = ret.pre + 1
        ELSE /\ ret.status = "err"
             /\ index = ret.pre

\* {0xFF: 1} on [0x40]: the second next() has failed on the 1 bit
C10_Witness ==
    /\ huffman = HuffmanNew((255 :> 1))
    /\ buffer = BitSliceFromSlice(<<64>>)
    /\ ret.op = "next" /\ ret.pre = 1 /\ ret.status = "err" /\ index = 1

(***************************************************************************)
(* Claims about Huffman::next.                                             *)
(***************************************************************************)

\* the d bits of the zero-padded stream from bit `from` on, as a number:
\* look(max_depth) >> (max_depth - d)
NextBits(from, d) == NatOf(PaddedBits(from, d))

\* the coded symbols of table h whose (depth, code) is the next bits at `from`
Matching(h, from) ==
    {s \in DOMAIN h.symbols : h.symbols[s] = NextBits(from, h.symbol_depth[s])}

NoEntry == 0 - 1    \* stands for "no entry returned"

\* Table::truncate
truncate(i, max) == IF i < max THEN i ELSE i - max

\* Table::next(codec, idx): the cursor is written before entries[*idx] is read
TableNext(delta, ents, buf, i, cur) ==
    LET o == HuffmanNext(delta, buf, i)
    IN  IF o.status # "ok"
        THEN [status |-> o.status, delta |-> NoSym, entry |-> NoEntry,
              index |-> o.index, idx |-> cur]
        ELSE LET c == truncate(cur + o.sym, Len(ents))
             IN  IF c < Len(ents)
                 THEN [status |-> "ok", delta |-> o.sym, entry |-> ents[c + 1],
                       index |-> o.index, idx |-> c]
                 ELSE [status |-> "panic", delta |-> o.sym, entry |-> NoEntry,
                       index |-> o.index, idx |-> c]     \* entries[*idx]: out of range

(***************************************************************************)
(* SpecTable: one Table and one Codec, driven by Table::next from cursor 0. *)
(***************************************************************************)
MaxPalette == 2     \* longest palette tried

DeltaSymbols == {0, 1, 3}

DeltaMaps == UNION {[S -> 0..MaxCodeLen] : S \in SUBSET DeltaSymbols}

DeltaTables == {h \in {HuffmanNew(sd) : sd \in DeltaMaps} : h.status = "ok"}

\* a palette of n entries; entry k is the opaque value 100 + k
Palette(n) == [k \in 1..n |-> 100 + (k - 1)]

\* table.next(&mut codec, &mut idx)
TableNextCall ==
    /\ Running
    /\ LET o == TableNext(huffman, entries, buffer, index, idx)
       IN  /\ index' = o.index
           /\ idx' = o.idx
           /\ ret' = [op |-> "table_next", pre |-> index, pre_idx |-> idx,
                      status |-> o.status, delta |-> o.delta, entry |-> o.entry]
    /\ UNCHANGED <<buffer, huffman, entries, unpackVars>>

InitTable ==
    /\ \E input \in SeqsUpTo(ByteVals, MaxBytes) : buffer = BitSliceFromSlice(input)
    /\ index = 0
    /\ ret = NoRet
    /\ huffman \in DeltaTables                              \* Table.delta
    /\ \E n \in 0..MaxPalette : entries = Palette(n)        \* Table.entries
    /\ idx = 0
    /\ Idle

NextTable == TableNextCall

SpecTable == InitTable /\ [][NextTable]_vars

\* C4: on a non-empty palette Table::next sets cursor to (cursor + d) mod len
\* for every decoded delta d and returns palette[cursor]; so the cursor stays
\* in 0..len-1.
C4_CursorModLen ==
    Len(entries) > 0 =>
        /\ idx < Len(entries)
        /\ (ret.op = "table_next" /\ ret.delta # NoSym) =>
              /\ ret.status = "ok"
              /\ idx = (ret.pre_idx + ret.delta) % Len(entries)
              /\ ret.entry = entries[idx + 1]

\* C5: on an empty palette a Table::next whose delta decodes ends in an error
\* returned to the caller, never in an abort.
C5_EmptyPaletteIsError ==
    (Len(entries) = 0 /\ ret.op = "table_next" /\ ret.delta # NoSym) =>
        ret.status = "err"

(***************************************************************************)
(* The level unpackers (src/unpack.rs) and Header::unpack_level            *)
(* (src/lib.rs).  The four unpackers share one skeleton; they differ in    *)
(* the block size and in the palettes they read, given by Streams.         *)
(* One step is one read of the bit stream: the tile selector, one endpoint *)
(* delta, or one selector delta (the last selector of a block also writes  *)
(* the block).                                                             *)
(***************************************************************************)
TRUNK_SIZE == 2     \* Unpack::TRUNK_SIZE
RefillBit == 512    \* the marker or-ed into a refilled tile_bits

Formats == {"Dxt1", "Dxt3", "Dxt5", "Dxt5CCxY", "Dxt5xGxR", "Dxt5xGBR", "Dxt5AGBR",
            "DxnXY", "DxnYX", "Dxt5A", "Etc1", "Invalid"}

Unpackers == {"Dxt1", "Dxt5", "Dxt5A", "Dxn"}

\* Block::BLOCK_SIZE
BLOCK_SIZE(u) == IF u \in {"Dxt1", "Dxt5A"} THEN 8 ELSE 16

COUNT_TILES == <<1, 2, 2, 3, 3, 3, 3, 4>>

TILES == << <<0, 0, 0, 0>>,
            <<0, 0, 1, 1>>, <<0, 1, 0, 1>>,
            <<0, 0, 1, 2>>, <<1, 2, 0, 0>>,
            <<0, 1, 0, 2>>, <<1, 0, 2, 0>>,
            <<0, 1, 2, 3>> >>

\* the palettes an unpacker reads, in the order it reads them within a chunk;
\* each has its own endpoint cursor and selector cursor
Streams(u) ==
    CASE u = "Dxt1"  -> <<"color">>
      [] u = "Dxt5"  -> <<"alpha", "color">>
      [] u = "Dxt5A" -> <<"alpha">>
      [] u = "Dxn"   -> <<"alpha", "alpha">>

EndpointTable(t, u, k) ==
    IF Streams(u)[k] = "alpha" THEN t.alpha_endpoint ELSE t.color_endpoint

SelectorTable(t, u, k) ==
    IF Streams(u)[k] = "alpha" THEN t.alpha_selector ELSE t.color_selector

\* the geometry of a call c = [unpacker, width, height, face]
BlockX(c) == (c.width + 3) \div 4
BlockY(c) == (c.height + 3) \div 4
ChunkX(c) == (BlockX(c) + 1) \div TRUNK_SIZE
ChunkY(c) == (BlockY(c) + 1) \div TRUNK_SIZE
Pitch(c) == BlockX(c) * BLOCK_SIZE(c.unpacker)

\* a variant of XOf that sweeps every row in ascending order
XOfAscending(c, l) == l.n

\* the chunk column of the n-th chunk of row y: 0..chunk_x, reversed on odd rows
XOf(c, l) == IF l.y % 2 = 1 THEN ChunkX(c) - 1 - l.n ELSE l.n

SkipX(c, l) == BlockX(c) % 2 = 1 /\ XOf(c, l) = ChunkX(c) - 1
SkipY(c, l) == l.y = ChunkY(c) - 1 /\ BlockY(c) % 2 = 1

\* s | 512 on a u32
OrRefillBit(sym) == IF (sym \div RefillBit) % 2 = 1 THEN sym ELSE sym + RefillBit

\* 1.max(v >> lvl)
ShiftedDim(v, lvl) == IF v \div Pow2(lvl) < 1 THEN 1 ELSE v \div Pow2(lvl)

\* the locals at the top of X::unpack
InitialLocals(u) ==
    [f |-> 0, y |-> 0, n |-> 0, i |-> 0, k |-> 1,
     tile_bits |-> 1, tile_index |-> 0,
     endpoint_index |-> [j \in 1..Len(Streams(u)) |-> 0],
     selector_index |-> [j \in 1..Len(Streams(u)) |-> 0],
     endpoints |-> [j \in 1..Len(Streams(u)) |-> [t \in 1..4 |-> 0]],
     selectors |-> [j \in 1..Len(Streams(u)) |-> 0]]

\* the loop variables after the chunk at (f, y, n): for _f { for y { for x {..} } }
NextChunk(c, l) ==
    IF l.n + 1 < ChunkX(c) THEN [l EXCEPT !.n = @ + 1]
    ELSE IF l.y + 1 < ChunkY(c) THEN [l EXCEPT !.n = 0, !.y = @ + 1]
    ELSE [l EXCEPT !.n = 0, !.y = 0, !.f = @ + 1]

\* block.write_to(&mut cursor): Cursor<&mut [u8]>::write copies what fits
WriteBlock(res, pos, block, size) ==
    LET room == IF pos < res.len THEN res.len - pos ELSE 0
        bytes == IF size < room THEN size ELSE room
    IN  [result |-> IF bytes = 0 THEN res
                    ELSE [res EXCEPT !.data = (pos :> [block |-> block, bytes |-> bytes]) @@ @],
         cursor |-> pos + bytes]

\* the call returns
Done(fn, st, msg, out) ==
    /\ pc' = "done"
    /\ ret' = [op |-> fn, status |-> st, error |-> msg,
               has_output |-> st = "ok", output |-> out]

NoOutput == [len |-> 0, data |-> <<>>]

\* the top of X::unpack(tables, codec, width, height, face)
EnterUnpack(c) ==
    /\ call' = c
    /\ loc' = InitialLocals(c.unpacker)
    /\ result' = [len |-> BlockY(c) * Pitch(c), data |-> <<>>]
    /\ cursor' = 0
    /\ pc' = IF c.face > 0 /\ ChunkY(c) > 0 /\ ChunkX(c) > 0 THEN "tile" ELSE "finish"
    /\ UNCHANGED ret

\* the match of Header::unpack_level
Dispatch(format) ==
    CASE format = "Dxt1" -> "unimplemented"
      [] format \in {"Dxt5", "Dxt5AGBR", "Dxt5CCxY", "Dxt5xGBR", "Dxt5xGxR"} -> "Dxt5"
      [] format = "Dxt5A" -> "unimplemented"
      [] format \in {"DxnXY", "DxnYX"} -> "unimplemented"
      [] format \in {"Dxt3", "Etc1", "Invalid"} -> "unsupported"

\* header.unpack_level(tables, input, lvl); data is the level's slice of input
UnpackLevel(header, tbls, data, lvl) ==
    /\ pc = "idle"
    /\ tables' = tbls
    /\ LET c == [fn |-> "unpack_level", format |-> header.format, unpacker |-> Dispatch(header.format),
                 width |-> ShiftedDim(header.width, lvl), height |-> ShiftedDim(header.height, lvl),
                 face |-> header.face_count, level_count |-> header.level_count, lvl |-> lvl]
       IN  IF ~(lvl < header.level_count)
           THEN /\ call' = c
                /\ Done(c.fn, "err", "level out of index", NoOutput)
                /\ UNCHANGED <<buffer, index, loc, result, cursor>>
           ELSE /\ buffer' = BitSliceFromSlice(data)        \* Codec::new(data)
                /\ index' = 0
                /\ IF c.unpacker = "unimplemented"
                   THEN /\ call' = c
                        /\ Done(c.fn, "panic", "not implemented", NoOutput)
                        /\ UNCHANGED <<loc, result, cursor>>
                   ELSE IF c.unpacker = "unsupported"
                   THEN /\ call' = c
                        /\ Done(c.fn, "err", "unsupported format", NoOutput)
                        /\ UNCHANGED <<loc, result, cursor>>
                   ELSE EnterUnpack(c)
    /\ UNCHANGED tableVars

\* X::unpack(tables, &mut Codec::new(data), width, height, face) called directly
Unpack(u, tbls, data, width, height, face) ==
    /\ pc = "idle"
    /\ tables' = tbls
    /\ buffer' = BitSliceFromSlice(data)
    /\ index' = 0
    /\ EnterUnpack([fn |-> "unpack", format |-> "none", unpacker |-> u,
                    width |-> width, height |-> height,
                    face |-> face, level_count |-> 0, lvl |-> 0])
    /\ UNCHANGED tableVars

\* Unpack::next_tile_idx at the top of a chunk
NextTileIdx ==
    /\ pc = "tile"
    /\ LET refill == loc.tile_bits = 1
           o == IF refill THEN HuffmanNext(tables.chunk_encoding, buffer, index)
                ELSE SymOutcome("ok", loc.tile_bits, index)
           bits == IF refill THEN OrRefillBit(o.sym) ELSE loc.tile_bits
       IN  /\ index' = o.index
           /\ IF o.status = "ok"
              THEN /\ loc' = [loc EXCEPT !.tile_index = bits % 8,
                                         !.tile_bits = bits \div 8,
                                         !.i = 0, !.k = 1,
                                         !.endpoints = InitialLocals(call.unpacker).endpoints]
                   /\ pc' = "endpoint"
                   /\ UNCHANGED ret
              ELSE /\ Done(call.fn, o.status, "read chunk encoding bits", NoOutput)
                   /\ UNCHANGED loc
    /\ UNCHANGED <<buffer, tableVars, call, tables, result, cursor>>

\* one tables.X_endpoint.next(codec, &mut X_endpoint_index) of the endpoint loops
ReadEndpoint ==
    /\ pc = "endpoint"
    /\ LET u == call.unpacker
           k == loc.k
           t == EndpointTable(tables, u, k)
           o == TableNext(t.delta, t.entries, buffer, index, loc.endpoint_index[k])
           last_i == loc.i + 1 = COUNT_TILES[loc.tile_index + 1]
           last_k == k = Len(Streams(u))
       IN  /\ index' = o.index
           /\ IF o.status = "ok"
              THEN /\ loc' = [loc EXCEPT !.endpoint_index[k] = o.idx,
                                         !.endpoints[k][loc.i + 1] = o.entry,
                                         !.i = IF last_i THEN 0 ELSE @ + 1,
                                         !.k = IF ~last_i THEN @ ELSE IF last_k THEN 1 ELSE @ + 1]
                   /\ pc' = IF last_i /\ last_k THEN "selector" ELSE "endpoint"
                   /\ UNCHANGED ret
              ELSE /\ loc' = [loc EXCEPT !.endpoint_index[k] = o.idx]
                   /\ Done(call.fn, o.status, "read endpoint delta", NoOutput)
    /\ UNCHANGED <<buffer, tableVars, call, tables, result, cursor>>

\* one tables.X_selector.next(codec, &mut X_selector_index) of the block loop; after
\* the last selector of block i the block is written unless the chunk is clipped
ReadSelector ==
    /\ pc = "selector"
    /\ LET u == call.unpacker
           k == loc.k
           t == SelectorTable(tables, u, k)
           o == TableNext(t.delta, t.entries, buffer, index, loc.selector_index[k])
           last_k == k = Len(Streams(u))
           last_i == loc.i = 3
           sels == [loc.selectors EXCEPT ![k] = o.entry]
           tile == TILES[loc.tile_index + 1][loc.i + 1]
           block == [j \in 1..Len(Streams(u)) |-> <<loc.endpoints[j][tile + 1], sels[j]>>]
           pos == IF loc.i % TRUNK_SIZE = 0
                  THEN (loc.y * TRUNK_SIZE + loc.i \div TRUNK_SIZE) * Pitch(call)
                       + XOf(call, loc) * BLOCK_SIZE(u) * TRUNK_SIZE      \* cursor.seek
                  ELSE cursor
           w == IF ~SkipX(call, loc) /\ ~SkipY(call, loc)
                THEN WriteBlock(result, pos, block, BLOCK_SIZE(u))
                ELSE [result |-> result, cursor |-> cursor]
           read == [loc EXCEPT !.selector_index[k] = o.idx]
       IN  /\ index' = o.index
           /\ IF o.status # "ok"
              THEN /\ loc' = read
                   /\ Done(call.fn, o.status, "read selector delta", NoOutput)
                   /\ UNCHANGED <<result, cursor>>
              ELSE IF ~last_k
              THEN /\ loc' = [read EXCEPT !.selectors = sels, !.k = @ + 1]
                   /\ pc' = "selector"
                   /\ UNCHANGED <<ret, result, cursor>>
              ELSE /\ result' = w.result
                   /\ cursor' = w.cursor
                   /\ UNCHANGED ret
                   /\ IF ~last_i
                      THEN /\ loc' = [read EXCEPT !.selectors = sels, !.k = 1, !.i = @ + 1]
                           /\ pc' = "selector"
                      ELSE LET l == NextChunk(call, [read EXCEPT !.selectors = sels, !.k = 1, !.i = 0])
                           IN  /\ loc' = l
                               /\ pc' = IF l.f < call.face THEN "tile" ELSE "finish"
    /\ UNCHANGED <<buffer, tableVars, call, tables>>

\* a variant of Finish that returns the result without asking is_complete()
FinishUnchecked ==
    /\ pc = "finish"
    /\ Done(call.fn, "ok", "", result)
    /\ UNCHANGED <<buffer, index, tableVars, call, tables, loc, result, cursor>>

\* if !codec.is_complete() { bail!("extra bytes in codec") }; Ok(result)
Finish ==
    /\ pc = "finish"
    /\ IF is_complete(buffer, index)
       THEN Done(call.fn, "ok", "", result)
       ELSE Done(call.fn, "err", "extra bytes in codec", NoOutput)
    /\ UNCHANGED <<buffer, index, tableVars, call, tables, loc, result, cursor>>

(***************************************************************************)
(* SpecUnpack: one level unpack, through Header::unpack_level or through   *)
(* an unpacker called directly, over small headers, tables and level data. *)
(***************************************************************************)
MaxBlocks == 4      \* widest and tallest texture tried, in blocks
MaxLevelBytes == 8  \* longest level data tried, in bytes
MaxLevels == 3      \* largest level_count tried

Faces == {1, 6}     \* Header.face_count

\* the base level of a header is the largest texture; its mip levels give the
\* smaller ones
HeaderDims == {4 * MaxBlocks}
DirectDims == {4 * b - 3 : b \in 1..MaxBlocks}

Headers == [format : Formats, width : HeaderDims, height : HeaderDims,
            face_count : Faces, level_count : 1..MaxLevels]

\* level data: n copies of one byte
LevelBytes == {0, 255}
LevelInputs == {[j \in 1..n |-> b] : n \in 0..MaxLevelBytes, b \in LevelBytes}

Table(delta, ents) == [delta |-> delta, entries |-> ents]      \* Table::new

\* every Huffman has two 1-bit codes; every palette has 2 entries, deltas 0 and 1
TablesPlain ==
    LET d == HuffmanNew((0 :> 1) @@ (1 :> 1))
    IN  [chunk_encoding |-> HuffmanNew((0 :> 1) @@ (511 :> 1)),
         color_endpoint |-> Table(d, Palette(2)), color_selector |-> Table(d, Palette(2)),
         alpha_endpoint |-> Table(d, Palette(2)), alpha_selector |-> Table(d, Palette(2))]

\* a chunk_encoding symbol above 1023; palettes of 3 entries, deltas 0 and 2
TablesWide ==
    LET d == HuffmanNew((0 :> 1) @@ (2 :> 1))
    IN  [chunk_encoding |-> HuffmanNew((2 :> 1) @@ (1536 :> 1)),
         color_endpoint |-> Table(d, Palette(3)), color_selector |-> Table(d, Palette(3)),
         alpha_endpoint |-> Table(d, Palette(3)), alpha_selector |-> Table(d, Palette(3))]

\* the alpha palettes absent (count 0): empty entries and an empty delta Huffman
TablesNoAlpha ==
    LET d == HuffmanNew((0 :> 1) @@ (1 :> 1))
    IN  [chunk_encoding |-> HuffmanNew((0 :> 1) @@ (511 :> 1)),
         color_endpoint |-> Table(d, Palette(2)), color_selector |-> Table(d, Palette(2)),
         alpha_endpoint |-> Table(HuffmanNew(<<>>), <<>>),
         alpha_selector |-> Table(HuffmanNew(<<>>), <<>>)]

TableSets == {TablesPlain, TablesWide, TablesNoAlpha}

InitUnpack ==
    /\ buffer = <<>>
    /\ index = 0
    /\ ret = NoRet
    /\ huffman = HuffmanNew(<<>>)
    /\ entries = <<>>
    /\ idx = 0
    /\ Idle

NextUnpack ==
    \/ /\ pc = "idle"
       /\ \E header \in Headers, tbls \in TableSets, data \in LevelInputs, lvl \in 0..MaxLevels :
             UnpackLevel(header, tbls, data, lvl)
    \/ /\ pc = "idle"
       /\ \E u \in Unpackers, tbls \in TableSets, data \in LevelInputs,
             width \in DirectDims, height \in DirectDims, face \in Faces :
             Unpack(u, tbls, data, width, height, face)
    \/ NextTileIdx
    \/ ReadEndpoint
    \/ ReadSelector
    \/ Finish

SpecUnpack == InitUnpack /\ [][NextUnpack]_vars

(***************************************************************************)
(* Claims about a level unpack.                                            *)
(***************************************************************************)
CeilDiv(a, b) == (a \div b) + (IF a % b = 0 THEN 0 ELSE 1)

Returned(st) == pc = "done" /\ ret.status = st

\* C1: a successful level unpack returns block_x * block_y * block_size *
\* face_count bytes, block_x = ceil(width/4), block_y = ceil(height/4), for
\* face_count 1 and 6 (the faces concatenated).
C1_OutputLength ==
    (Returned("ok") /\ call.fn = "unpack_level") =>
        ret.output.len = CeilDiv(call.width, 4) * CeilDiv(call.height, 4)
                         * BLOCK_SIZE(call.unpacker) * call.face

\* position i of chunk (x, y) is clipped: outside a texture of odd block_x / block_y
Clipped(c, x, y, i) ==
    \/ (CeilDiv(c.width, 4) % 2 = 1 /\ x = CeilDiv(CeilDiv(c.width, 4), 2) - 1 /\ i \in {1, 3})
    \/ (CeilDiv(c.height, 4) % 2 = 1 /\ y = CeilDiv(CeilDiv(c.height, 4), 2) - 1 /\ i \in {2, 3})

\* (2*y + i div 2)*pitch + x*2*block_size + (i mod 2)*block_size
BlockOffset(c, x, y, i) ==
    (2 * y + i \div 2) * (CeilDiv(c.width, 4) * BLOCK_SIZE(c.unpacker))
    + x * 2 * BLOCK_SIZE(c.unpacker) + (i % 2) * BLOCK_SIZE(c.unpacker)

\* C2: every non-clipped position i of every chunk, the partially clipped
\* chunks included, is written at its byte offset; so a successful unpack has
\* written every block of the texture.
C2_UnclippedBlocksWritten ==
    Returned("ok") =>
        \A x \in 0..(CeilDiv(CeilDiv(call.width, 4), 2) - 1),
           y \in 0..(CeilDiv(CeilDiv(call.height, 4), 2) - 1),
           i \in 0..3 :
            ~Clipped(call, x, y, i) =>
                /\ BlockOffset(call, x, y, i) \in DOMAIN ret.output.data
                /\ ret.output.data[BlockOffset(call, x, y, i)].bytes = BLOCK_SIZE(call.unpacker)

\* C3: unpack_level runs the Dxt1 unpacker for Dxt1, Dxt5A for Dxt5A, Dxn for
\* DxnXY/DxnYX and Dxt5 for the Dxt5 family, and returns its result; only Dxt3,
\* Etc1 and Invalid give the unsupported-format error.
C3_Dispatch ==
    (call.fn = "unpack_level" /\ call.lvl < call.level_count) =>
        /\ call.format = "Dxt1" => call.unpacker = "Dxt1"
        /\ call.format = "Dxt5A" => call.unpacker = "Dxt5A"
        /\ call.format \in {"DxnXY", "DxnYX"} => call.unpacker = "Dxn"
        /\ call.format \in {"Dxt5", "Dxt5AGBR", "Dxt5CCxY", "Dxt5xGBR", "Dxt5xGxR"} =>
               call.unpacker = "Dxt5"
        /\ call.format \in {"Dxt3", "Etc1", "Invalid"} <=>
               (pc = "done" /\ ret.status = "err" /\ ret.error = "unsupported format")
        /\ ~(pc = "done" /\ ret.status = "panic" /\ ret.error = "not implemented")

\* an unpacker has been entered and has returned
UnpackReturned == pc = "done" /\ call.unpacker \in Unpackers /\ DOMAIN loc # {}

\* every chunk of every face has been decoded
AllChunksDecoded == loc.f = call.face

\* C14: a level unpack returns success only if, after all chunks of all faces,
\* index is in [8*len - 7, 8*len]; when more bits remain, or when a
\* chunk-encoding or palette-delta decode fails in any chunk, it returns one
\* error and no output, partial or whole.
C14_AllOrNothing ==
    UnpackReturned =>
        IF AllChunksDecoded /\ Len(buffer) - 7 <= index /\ index <= Len(buffer)
        THEN /\ ret.status = "ok"
             /\ ret.has_output /\ ret.output = result
        ELSE /\ ret.status = "err"
             /\ ~ret.has_output /\ ret.output = NoOutput

\* a Dxt5 unpack has decoded every chunk and written blocks, and is refused
\* for the bytes left in the stream
C14_Witness ==
    /\ UnpackReturned /\ call.unpacker = "Dxt5"
    /\ AllChunksDecoded /\ index + 7 < Len(buffer)
    /\ result.data # <<>>
    /\ ret.status = "err" /\ ret.error = "extra bytes in codec"

(***************************************************************************)
(* Codec::get_huffman (src/codec.rs): a Huffman table read from the bit    *)
(* stream.  A Key is a number in its Ord order: Depth(d) is d, then        *)
(* ShortZero, LongZero, ShortRepeat, LongRepeat.  One step is the header   *)
(* (symbol_count, the key depths, the key table), one iteration of the     *)
(* while loop, or the final Huffman::new.                                  *)
(***************************************************************************)
MAX_SYMBOL_COUNT_BIT == 14
ShortZero == 17
LongZero == 18
ShortRepeat == 19
LongRepeat == 20

\* Key::SHUFFLE
SHUFFLE == <<ShortZero, LongZero, ShortRepeat, LongRepeat,
             0, 8, 7, 9, 6, 10, 5, 11, 4, 12, 3, 13, 2, 14, 1, 15, 16>>

NoDepth == 0 - 1    \* last = None

\* the number a successful read_bits returned
Value(o) == NatOf(o.val)

\* tmp_symbol_depth: SHUFFLE[i] -> the 3 bits at `from` + 3*i, when not 0
TmpSymbolDepth(buf, from, tmp_symbol_count) ==
    LET value(i) == NatOf(Range(buf, from + 3 * i, from + 3 * i + 3))
        set == {i \in 0..(tmp_symbol_count - 1) : value(i) # 0}
    IN  [key \in {SHUFFLE[i + 1] : i \in set} |->
           value(CHOOSE i \in set : SHUFFLE[i + 1] = key)]

\* the locals at the top of the while loop; runs keeps, for every iteration done,
\* the key symbol, where its extra bits start, and the (len, d) it gave
LoopLocals(symbol_count, key) ==
    [symbol_count |-> symbol_count, key |-> key, i |-> 0, last |-> NoDepth,
     symbol_depth |-> <<>>, runs |-> <<>>]

\* codec.get_huffman() up to the loop
GetHuffman ==
    /\ pc = "get_huffman"
    /\ LET r1 == read_bits(buffer, index, MAX_SYMBOL_COUNT_BIT)
           symbol_count == Value(r1)
           r2 == read_bits(buffer, r1.index, 5)
           tmp_symbol_count == Value(r2)
           avail == (Len(buffer) - r2.index) \div 3
           key == HuffmanNew(TmpSymbolDepth(buffer, r2.index, tmp_symbol_count))
       IN  IF r1.status # "ok"
           THEN /\ Done("get_huffman", "err", "read out of index", NoOutput)
                /\ UNCHANGED <<index, huffman, loc>>
           ELSE IF symbol_count = 0
           THEN /\ index' = r1.index
                /\ huffman' = HuffmanNew(<<>>)
                /\ Done("get_huffman", huffman'.status, "", NoOutput)
                /\ UNCHANGED loc
           ELSE IF r2.status # "ok"
           THEN /\ index' = r1.index
                /\ Done("get_huffman", "err", "read out of index", NoOutput)
                /\ UNCHANGED <<huffman, loc>>
           ELSE IF ~(tmp_symbol_count < Len(SHUFFLE))
           THEN /\ index' = r2.index
                /\ Done("get_huffman", "err", "symbol_size_count", NoOutput)
                /\ UNCHANGED <<huffman, loc>>
           ELSE IF avail < tmp_symbol_count
           THEN /\ index' = r2.index + 3 * avail
                /\ Done("get_huffman", "err", "read out of index", NoOutput)
                /\ UNCHANGED <<huffman, loc>>
           ELSE IF key.status # "ok"
           THEN /\ index' = r2.index + 3 * tmp_symbol_count
                /\ Done("get_huffman", key.status, "get key huffman", NoOutput)
                /\ UNCHANGED <<huffman, loc>>
           ELSE /\ index' = r2.index + 3 * tmp_symbol_count
                /\ loc' = LoopLocals(symbol_count, key)
                /\ pc' = "while"
                /\ UNCHANGED <<huffman, ret>>
    /\ UNCHANGED <<buffer, entries, idx, call, tables, result, cursor>>

\* the bits read after a key symbol, and what is added to them
ExtraBits(sym) ==
    CASE sym = ShortZero -> 3 [] sym = LongZero -> 7
      [] sym = ShortRepeat -> 2 [] sym = LongRepeat -> 6 [] OTHER -> 0

RunBase(sym) ==
    CASE sym = ShortZero -> 3 [] sym = LongZero -> 11
      [] sym = ShortRepeat -> 3 [] sym = LongRepeat -> 7 [] OTHER -> 1

\* one iteration of `while i < symbol_count`
GetHuffmanWhile ==
    /\ pc = "while"
    /\ loc.i < loc.symbol_count
    /\ LET o == HuffmanNext(loc.key, buffer, index)
           sym == o.sym
           r == read_bits(buffer, o.index, ExtraBits(sym))
           len == IF sym <= KeyMaxDepth THEN 1 ELSE Value(r) + RunBase(sym)
           d == IF sym <= KeyMaxDepth THEN sym
                ELSE IF sym \in {ShortZero, LongZero} THEN 0 ELSE loc.last
           inserted == IF d = 0 THEN {} ELSE {loc.i + j : j \in 0..(len - 1)}
           run == [sym |-> sym, at |-> o.index, len |-> len, d |-> d]
       IN  IF o.status # "ok"
           THEN /\ index' = o.index
                /\ Done("get_huffman", o.status, "get key content", NoOutput)
                /\ UNCHANGED loc
           ELSE IF r.status # "ok"
           THEN /\ index' = r.index
                /\ Done("get_huffman", "err", "read out of index", NoOutput)
                /\ UNCHANGED loc
           ELSE IF sym \in {ShortRepeat, LongRepeat} /\ loc.last = NoDepth
           THEN /\ index' = r.index
                /\ Done("get_huffman", "err",
                        IF sym = ShortRepeat THEN "short repeat no last"
                        ELSE "long repeat no last", NoOutput)
                /\ UNCHANGED loc
           ELSE /\ index' = r.index
                /\ loc' = [loc EXCEPT
                             !.last = d,
                             !.symbol_depth = [s \in inserted |-> d] @@ @,
                             !.i = @ + len,
                             !.runs = Append(@, run)]
                /\ UNCHANGED <<pc, ret>>
    /\ UNCHANGED <<buffer, huffman, entries, idx, call, tables, result, cursor>>

\* Huffman::new(symbol_depth) after the loop
GetHuffmanReturn ==
    /\ pc = "while"
    /\ ~(loc.i < loc.symbol_count)
    /\ huffman' = HuffmanNew(loc.symbol_depth)
    /\ Done("get_huffman", huffman'.status, "", NoOutput)
    /\ UNCHANGED <<buffer, index, entries, idx, call, tables, loc, result, cursor>>

(***************************************************************************)
(* SpecGetHuffman: get_huffman on a stream made of a symbol count, a key   *)
(* header and every payload of MaxPayloadBits bits.                        *)
(***************************************************************************)
MaxSymbolCount == 5     \* largest symbol_count tried
MaxPayloadBits == 11    \* length of the code-length stream tried, in bits

RECURSIVE Flatten(_)
Flatten(fields) == IF fields = <<>> THEN <<>> ELSE Head(fields) \o Flatten(Tail(fields))

\* the bits padded with zeros to whole bytes, as bytes
ToBytes(bits) ==
    LET padded == bits \o Zeros((8 - (Len(bits) % 8)) % 8)
    IN  [j \in 1..(Len(padded) \div 8) |-> NatOf(SubSeq(padded, 8 * j - 7, 8 * j))]

\* key depths by SHUFFLE position: depth 3 for the four run-length keys,
\* Depth(0), Depth(3), Depth(2) and Depth(1), so that the key codes are
\* Depth(0..3) = 000..011, ShortZero = 100, LongZero = 101, ShortRepeat = 110,
\* LongRepeat = 111
KeyDepthsFull ==
    [p \in 1..19 |-> IF p \in {1, 2, 3, 4, 5, 15, 17, 19} THEN 3 ELSE 0]

\* a key table that Huffman::new rejects: ShortZero alone at depth 2
KeyDepthsBad == <<2>>

\* tmp_symbol_count = 21 is not below SHUFFLE.len()
KeyDepthsLong == [p \in 1..21 |-> 0]

KeyHeaders == {KeyDepthsFull, KeyDepthsBad, KeyDepthsLong}

\* symbol_count (14 bits), tmp_symbol_count (5 bits), the key depths (3 bits each)
HeaderBits(symbol_count, key_depths) ==
    BitsOf(symbol_count, MAX_SYMBOL_COUNT_BIT) \o BitsOf(Len(key_depths), 5)
    \o Flatten([p \in 1..Len(key_depths) |-> BitsOf(key_depths[p], 3)])

\* every payload after the full key; the headers that end the call early
\* (symbol_count 0, the rejected keys) with a payload of zeros; a stream too short
GetHuffmanInputs ==
    {ToBytes(HeaderBits(symbol_count, KeyDepthsFull) \o payload) :
        symbol_count \in 1..MaxSymbolCount, payload \in [1..MaxPayloadBits -> {0, 1}]}
    \cup {ToBytes(HeaderBits(symbol_count, key_depths) \o Zeros(MaxPayloadBits)) :
             symbol_count \in 0..MaxSymbolCount, key_depths \in KeyHeaders}
    \cup {<<0>>}

InitGetHuffman ==
    /\ \E input \in GetHuffmanInputs : buffer = BitSliceFromSlice(input)
    /\ index = 0
    /\ ret = NoRet
    /\ huffman = HuffmanNew(<<>>)
    /\ entries = <<>>
    /\ idx = 0
    /\ call = [fn |-> "get_huffman"]
    /\ tables = <<>>
    /\ pc = "get_huffman"
    /\ loc = <<>>
    /\ result = NoOutput
    /\ cursor = 0

NextGetHuffman ==
    \/ GetHuffman
    \/ GetHuffmanWhile
    \/ GetHuffmanReturn

SpecGetHuffman == InitGetHuffman /\ [][NextGetHuffman]_vars

(***************************************************************************)
(* Claims about get_huffman.                                               *)
(***************************************************************************)

\* get_huffman has entered its while loop
InWhile == call.fn = "get_huffman" /\ DOMAIN loc # {}

\* C15: get_huffman fails whenever the code-length stream emits more than
\* symbol_count entries (a run that starts before symbol_count and ends past
\* it), and no symbol with index >= symbol_count is ever placed in the table.
C15_RunPastSymbolCount ==
    InWhile =>
        /\ \A s \in DOMAIN loc.symbol_depth : s < loc.symbol_count
        /\ (pc = "done" /\ loc.i > loc.symbol_count) => ret.status = "err"
        /\ (pc = "done" /\ ret.status = "ok") =>
               \A s \in DOMAIN huffman.symbols : s < loc.symbol_count

\* the depth of the last run before run j whose depth is not 0, or NoDepth
RECURSIVE LastNonZero(_, _)
LastNonZero(runs, j) ==
    IF j <= 1 THEN NoDepth
    ELSE IF runs[j - 1].d # 0 THEN runs[j - 1].d
    ELSE LastNonZero(runs, j - 1)

\* C16: ShortRepeat reads 2 bits n and emits n+3 entries, LongRepeat reads 6
\* bits n and emits n+7 entries, of the last non-zero depth emitted before it
\* (zero runs and Depth(0) in between are skipped); a repeat before any such
\* depth fails.
C16_RepeatLastNonZero ==
    InWhile =>
        \A j \in 1..Len(loc.runs) :
            LET run == loc.runs[j]
            IN  /\ run.sym = ShortRepeat =>
                       /\ run.len = NatOf(Range(buffer, run.at, run.at + 2)) + 3
                       /\ LastNonZero(loc.runs, j) # NoDepth
                       /\ run.d = LastNonZero(loc.runs, j)
                /\ run.sym = LongRepeat =>
                       /\ run.len = NatOf(Range(buffer, run.at, run.at + 6)) + 7
                       /\ LastNonZero(loc.runs, j) # NoDepth
                       /\ run.d = LastNonZero(loc.runs, j)

(***************************************************************************)
(* Claims about the tile_bits register.                                    *)
(***************************************************************************)

\* an unpacker is between its entry and its return
InUnpack == pc \in {"tile", "endpoint", "selector", "finish"}

\* the number of the chunk at hand in traversal order, counted across rows and faces
ChunkNumber ==
    (loc.f * CeilDiv(CeilDiv(call.height, 4), 2) + loc.y) * CeilDiv(CeilDiv(call.width, 4), 2)
    + loc.n

\* C17: tile_bits starts at 1 and, whatever symbol the chunk_encoding table
\* yields, a refill serves exactly three chunks: at the top of a chunk
\* tile_bits is the sentinel 1 (and the chunk_encoding Huffman is decoded)
\* exactly for chunks number 0, 3, 6, ..., and tile_bits is never 0.
C17_RefillEveryThreeChunks ==
    InUnpack =>
        /\ loc.tile_bits # 0
        /\ pc = "tile" => (loc.tile_bits = 1 <=> ChunkNumber % 3 = 0)

(***************************************************************************)
(* Claims about the order of the reads of a Dxt5 level.                    *)
(***************************************************************************)

\* a step of a Dxt5 unpack that reads the bit stream
Dxt5Reads == pc \in {"tile", "endpoint", "selector"} /\ call.unpacker = "Dxt5"

SameChunk == loc'.f = loc.f /\ loc'.y = loc.y /\ loc'.n = loc.n

\* where a cursor c over a palette of len entries may be after one delta of table t
Advanced(t, c) == {truncate(c + d, Len(t.entries)) : d \in DOMAIN t.delta.symbols}

\* the four cursors after a read of palette `kind` ("none": no palette read):
\* only the cursor of that palette moves, by one delta
CursorsAfter(kind) ==
    /\ loc'.endpoint_index[1] = loc.endpoint_index[1]
          \/ (kind = "alpha_endpoint"
              /\ loc'.endpoint_index[1] \in Advanced(tables.alpha_endpoint, loc.endpoint_index[1]))
    /\ loc'.endpoint_index[2] = loc.endpoint_index[2]
          \/ (kind = "color_endpoint"
              /\ loc'.endpoint_index[2] \in Advanced(tables.color_endpoint, loc.endpoint_index[2]))
    /\ loc'.selector_index[1] = loc.selector_index[1]
          \/ (kind = "alpha_selector"
              /\ loc'.selector_index[1] \in Advanced(tables.alpha_selector, loc.selector_index[1]))
    /\ loc'.selector_index[2] = loc.selector_index[2]
          \/ (kind = "color_selector"
              /\ loc'.selector_index[2] \in Advanced(tables.color_selector, loc.selector_index[2]))

\* the chunk column visited n-th in row y: ascending on even y, descending on odd y
Column(y, n) ==
    IF y % 2 = 0 THEN n ELSE CeilDiv(CeilDiv(call.width, 4), 2) - 1 - n

\* the chunk after the one at hand: the next of the row, else the first of the
\* next row, else the first of the next face
ChunkAfter ==
    IF loc.n + 1 < CeilDiv(CeilDiv(call.width, 4), 2)
    THEN loc'.f = loc.f /\ loc'.y = loc.y /\ loc'.n = loc.n + 1
    ELSE IF loc.y + 1 < CeilDiv(CeilDiv(call.height, 4), 2)
    THEN loc'.f = loc.f /\ loc'.y = loc.y + 1 /\ loc'.n = 0
    ELSE loc'.f = loc.f + 1 /\ loc'.y = 0 /\ loc'.n = 0

\* what the read at hand is followed by
ReadOrder ==
    CASE pc = "tile" ->
           \* the refill, if any, then the first alpha endpoint
           /\ pc' = "endpoint" /\ loc'.k = 1 /\ loc'.i = 0
           /\ SameChunk /\ CursorsAfter("none")
      [] pc = "endpoint" /\ loc.k = 1 ->
           \* tiles_count alpha endpoints, then the color endpoints
           /\ pc' = "endpoint" /\ SameChunk /\ CursorsAfter("alpha_endpoint")
           /\ IF loc.i + 1 < COUNT_TILES[loc.tile_index + 1]
              THEN loc'.k = 1 /\ loc'.i = loc.i + 1
              ELSE loc'.k = 2 /\ loc'.i = 0
      [] pc = "endpoint" /\ loc.k = 2 ->
           \* tiles_count color endpoints, then the alpha selector of block 0
           /\ SameChunk /\ CursorsAfter("color_endpoint")
           /\ IF loc.i + 1 < COUNT_TILES[loc.tile_index + 1]
              THEN pc' = "endpoint" /\ loc'.k = 2 /\ loc'.i = loc.i + 1
              ELSE pc' = "selector" /\ loc'.k = 1 /\ loc'.i = 0
      [] pc = "selector" /\ loc.k = 1 ->
           \* the alpha selector of block i, then its color selector
           /\ pc' = "selector" /\ loc'.k = 2 /\ loc'.i = loc.i
           /\ SameChunk /\ CursorsAfter("alpha_selector")
           /\ UNCHANGED <<result, cursor>>
      [] pc = "selector" /\ loc.k = 2 ->
           \* the color selector of block i, then block i + 1 or the next chunk;
           \* an unclipped chunk writes block i at its offset
           /\ CursorsAfter("color_selector")
           /\ IF loc.i < 3
              THEN pc' = "selector" /\ loc'.k = 1 /\ loc'.i = loc.i + 1 /\ SameChunk
              ELSE /\ ChunkAfter /\ loc'.k = 1 /\ loc'.i = 0
                   /\ pc' = IF loc'.f < call.face THEN "tile" ELSE "finish"
           /\ \/ UNCHANGED <<result, cursor>>
              \/ /\ BlockOffset(call, Column(loc.y, loc.n), loc.y, loc.i) \in DOMAIN result'.data
                 /\ cursor' = BlockOffset(call, Column(loc.y, loc.n), loc.y, loc.i) + 16

\* the palette read at hand names the stream the model's tables give it
ReadsNamedTable ==
    /\ Streams("Dxt5") = <<"alpha", "color">>
    /\ (pc = "endpoint" /\ loc.k = 1) => EndpointTable(tables, "Dxt5", loc.k) = tables.alpha_endpoint
    /\ (pc = "endpoint" /\ loc.k = 2) => EndpointTable(tables, "Dxt5", loc.k) = tables.color_endpoint
    /\ (pc = "selector" /\ loc.k = 1) => SelectorTable(tables, "Dxt5", loc.k) = tables.alpha_selector
    /\ (pc = "selector" /\ loc.k = 2) => SelectorTable(tables, "Dxt5", loc.k) = tables.color_selector

\* C18: in every chunk of a Dxt5 level, clipped or not, the reads are: the
\* tile_bits refill if needed, tiles_count alpha-endpoint deltas, tiles_count
\* color-endpoint deltas, then for i = 0..3 one alpha-selector delta and one
\* color-selector delta; the chunks go per face, y = 0..chunk_y-1, x ascending on
\* even y and descending on odd y; the four cursors are 0 at the start of the
\* level and only ever move by the delta read, never reset.
C18_ReadOrder ==
    [][/\ (pc = "idle" /\ pc' = "tile" /\ call'.unpacker = "Dxt5") =>
             /\ loc'.endpoint_index = <<0, 0>> /\ loc'.selector_index = <<0, 0>>
             /\ loc'.f = 0 /\ loc'.y = 0 /\ loc'.n = 0
       /\ Dxt5Reads => (ReadsNamedTable /\ (pc' = "done" \/ ReadOrder))]_vars

\* a 4x4-block Dxt5 level in its second row, at the last selector of the chunk
\* visited second (column 0): the first chunk of the row was written at column 1
\* and a cursor has moved
C18_Witness ==
    /\ Dxt5Reads /\ CeilDiv(call.width, 4) = 4 /\ CeilDiv(call.height, 4) = 4
    /\ pc = "selector" /\ loc.y = 1 /\ loc.n = 1 /\ loc.i = 3 /\ loc.k = 2
    /\ BlockOffset(call, 1, 1, 0) \in DOMAIN result.data
    /\ BlockOffset(call, 0, 1, 2) \in DOMAIN result.data
    /\ loc.selector_index # <<0, 0>>

====
